---------------------------- MODULE Spec2Model ----------------------------
(***************************************************************************)
(* A model of pdf_utils.py: PDF validation, chunking, fingerprinting, the  *)
(* existence check and the ingestion into the vector index, and the RAG    *)
(* query.  The vector index, the embedding service, the PDF library and    *)
(* the chat model are external services: each call to one of them either   *)
(* succeeds or fails, chosen nondeterministically.                         *)
(***************************************************************************)
EXTENDS Bags, FiniteSets, Integers, Sequences, TLC

(***************************************************************************)
(* Bounds of the model.                                                    *)
(***************************************************************************)
NumProcs == 2        \* callers that may run ingest requests
MaxChunks == 2       \* largest number of chunks of an uploaded document
MaxIngests == 3      \* ingest requests started in one run

Procs == 1..NumProcs

(***************************************************************************)
(* Uploaded documents of the ingest model, identified by their bytes: one  *)
(* without extractable text (no chunk), one of a single chunk and one of   *)
(* MaxChunks chunks.                                                       *)
(***************************************************************************)
Docs == {"d0", "d1", "dN"}

\* get_pdf_hash: SHA-256 hex digest of the bytes; distinct modelled
\* documents have distinct digests.
get_pdf_hash(file_bytes) == <<"sha256", file_bytes>>

\* the chunk list handed to store_chunks_in_pinecone for document d
ChunksOf(d) ==
  LET n == IF d = "d0" THEN 0 ELSE IF d = "d1" THEN 1 ELSE MaxChunks
  IN  [i \in 1..n |-> <<"chunk", d, i - 1>>]

(***************************************************************************)
(* The credential in st.secrets and the values os.environ can hold for     *)
(* PINECONE_API_KEY before the first ingestion (unset, or a value loaded   *)
(* by load_dotenv at import time).                                         *)
(***************************************************************************)
SecretKey == "secret_key"
EnvInitial == {"unset", "dotenv_key"}

VARIABLES
  index,        \* the vector index: a bag of stored records (metadata)
  environ,      \* os.environ["PINECONE_API_KEY"]
  pc,           \* pc[p]: position of caller p in its ingest request
  doc,          \* doc[p]: the document of p's current/last ingest request
  found,        \* found[p]: what is_document_already_indexed returned to p
  queryFailed,  \* queryFailed[p]: the existence query of p raised
  written,      \* written[p]: records upserted by p's store call so far
  outcome,      \* outcome[p]: "none", "skipped", "stored" or "raised"
  retry,        \* retry[p]: p's request follows a raised store of doc[p]
  raisedLast,   \* documents whose latest store call raised
  checkErrors,  \* fingerprints whose existence query failed (logged)
  started,      \* number of ingest requests started
  vin, vout,    \* validate_pdf: input and returned triple
  cin, cout,    \* process_pdf_and_split: input and returned chunks
  qin, qout     \* query_llm_with_rag: input and result

ingestVars == <<index, environ, pc, doc, found, queryFailed, written,
                outcome, retry, raisedLast, checkErrors, started>>
pureVars == <<vin, vout, cin, cout, qin, qout>>
vars == <<index, environ, pc, doc, found, queryFailed, written, outcome,
          retry, raisedLast, checkErrors, started, vin, vout, cin, cout,
          qin, qout>>

(***************************************************************************)
(* The vector index service.                                               *)
(***************************************************************************)
\* records of the index whose metadata matches filter doc_hash == pdf_hash
Matching(idx, pdf_hash) == {m \in BagToSet(idx) : m.doc_hash = pdf_hash}

\* index.query(vector, top_k, filter): at most top_k matching records
IndexQuery(idx, top_k, pdf_hash) ==
  LET M == Matching(idx, pdf_hash)
  IN  IF M = {} \/ top_k = 0 THEN <<>> ELSE <<CHOOSE m \in M : TRUE>>

\* an upsert that replaces a record with the same metadata instead of
\* appending a new one
IndexUpsertOverwrite(idx, m) ==
  IF BagIn(m, idx) THEN idx ELSE idx (+) SetToBag({m})

\* from_texts gives every text a fresh id, so an upsert appends a record
IndexUpsert(idx, m) == idx (+) SetToBag({m})

(***************************************************************************)
(* is_document_already_indexed(index, pdf_hash).  queryOK = FALSE is the   *)
(* query raising: the except branch returns False.                         *)
(***************************************************************************)
\* a check that never reports a match
is_document_already_indexed_never(idx, pdf_hash, queryOK) == FALSE

\* a check that blocks ingestion when the query fails
is_document_already_indexed_failclosed(idx, pdf_hash, queryOK) ==
  IF queryOK THEN Len(IndexQuery(idx, 1, pdf_hash)) > 0 ELSE TRUE

is_document_already_indexed(idx, pdf_hash, queryOK) ==
  IF queryOK THEN Len(IndexQuery(idx, 1, pdf_hash)) > 0 ELSE FALSE

(***************************************************************************)
(* store_chunks_in_pinecone(chunks, embedding_function, index_name,        *)
(* pdf_hash).                                                              *)
(***************************************************************************)
\* metadatas = [{"doc_hash": pdf_hash, "chunk_id": i} for i in range(n)]
Metadatas(chunks, pdf_hash) ==
  [i \in 1..Len(chunks) |-> [doc_hash |-> pdf_hash, chunk_id |-> i - 1]]

\* os.environ after the assignment of line 101
SetEnviron(env, key) == key

(***************************************************************************)
(* Initial state: an index (empty here), the environment as the import     *)
(* left it, and no request under way.                                      *)
(***************************************************************************)
IngestInit ==
  /\ index = EmptyBag
  /\ environ \in EnvInitial
  /\ pc = [p \in Procs |-> "idle"]
  /\ doc = [p \in Procs |-> "d0"]
  /\ found = [p \in Procs |-> FALSE]
  /\ queryFailed = [p \in Procs |-> FALSE]
  /\ written = [p \in Procs |-> 0]
  /\ outcome = [p \in Procs |-> "none"]
  /\ retry = [p \in Procs |-> FALSE]
  /\ raisedLast = {}
  /\ checkErrors = {}
  /\ started = 0

\* no call of validate_pdf, process_pdf_and_split or query_llm_with_rag yet
NoCall == [tag |-> "none"]

PureIdle ==
  /\ vin = NoCall /\ vout = NoCall
  /\ cin = NoCall /\ cout = NoCall
  /\ qin = NoCall /\ qout = NoCall

Init == IngestInit /\ PureIdle

(***************************************************************************)
(* The caller's ingest request for document d: the existence check, then   *)
(* store_chunks_in_pinecone only when the check returned False.            *)
(***************************************************************************)
StartRequest(p, d) ==
  /\ pc[p] = "idle"
  /\ started < MaxIngests
  /\ started' = started + 1
  /\ pc' = [pc EXCEPT ![p] = "check"]
  /\ doc' = [doc EXCEPT ![p] = d]
  /\ found' = [found EXCEPT ![p] = FALSE]
  /\ queryFailed' = [queryFailed EXCEPT ![p] = FALSE]
  /\ written' = [written EXCEPT ![p] = 0]
  /\ outcome' = [outcome EXCEPT ![p] = "none"]
  /\ retry' = [retry EXCEPT ![p] = d \in raisedLast]
  /\ raisedLast' = raisedLast \ {d}
  /\ UNCHANGED <<index, environ, checkErrors>>

\* one request at a time
BeginIngest(p, d) ==
  /\ \A q \in Procs : pc[q] = "idle"
  /\ StartRequest(p, d)
  /\ UNCHANGED pureVars

\* requests of different callers overlap
BeginIngestConcurrent(p, d) ==
  /\ StartRequest(p, d)
  /\ UNCHANGED pureVars

\* is_document_already_indexed returns (it never raises)
CheckIndexed(p, queryOK) ==
  /\ pc[p] = "check"
  /\ found' = [found EXCEPT ![p] =
        is_document_already_indexed(index, get_pdf_hash(doc[p]), queryOK)]
  /\ queryFailed' = [queryFailed EXCEPT ![p] = ~queryOK]
  /\ checkErrors' = IF queryOK THEN checkErrors
                    ELSE checkErrors \cup {get_pdf_hash(doc[p])}
  /\ pc' = [pc EXCEPT ![p] = "checked"]
  /\ UNCHANGED <<index, environ, doc, written, outcome, retry, raisedLast,
                 started>>
  /\ UNCHANGED pureVars

\* the caller skips the ingestion of a document reported as indexed
SkipIngest(p) ==
  /\ pc[p] = "checked"
  /\ found[p]
  /\ pc' = [pc EXCEPT ![p] = "idle"]
  /\ outcome' = [outcome EXCEPT ![p] = "skipped"]
  /\ UNCHANGED <<index, environ, doc, found, queryFailed, written, retry,
                 raisedLast, checkErrors, started>>
  /\ UNCHANGED pureVars

\* the except branch of store_chunks_in_pinecone: log and re-raise
StoreRaise(p) ==
  /\ pc' = [pc EXCEPT ![p] = "idle"]
  /\ outcome' = [outcome EXCEPT ![p] = "raised"]
  /\ raisedLast' = raisedLast \cup {doc[p]}

\* store_chunks_in_pinecone up to the call of from_texts: the metadata
\* list, the credential lookup and the assignment to os.environ
StoreEnter(p, secretsOK) ==
  /\ pc[p] = "checked"
  /\ ~found[p]
  /\ IF secretsOK
       THEN /\ environ' = SetEnviron(environ, SecretKey)
            /\ pc' = [pc EXCEPT ![p] = "embed"]
            /\ UNCHANGED <<outcome, raisedLast>>
       ELSE /\ StoreRaise(p)
            /\ UNCHANGED environ
  /\ UNCHANGED <<index, doc, found, queryFailed, written, retry,
                 checkErrors, started>>
  /\ UNCHANGED pureVars

\* from_texts connects to the index and embeds the texts
StoreEmbed(p, embedOK) ==
  /\ pc[p] = "embed"
  /\ IF embedOK
       THEN /\ pc' = [pc EXCEPT ![p] = "upsert"]
            /\ UNCHANGED <<outcome, raisedLast>>
       ELSE StoreRaise(p)
  /\ UNCHANGED <<index, environ, doc, found, queryFailed, written, retry,
                 checkErrors, started>>
  /\ UNCHANGED pureVars

\* from_texts upserts the next record, or the index service fails.  The
\* library sends the records in several upsert requests; here a request
\* carries one record, and a failed request ends the call with the records
\* of the earlier requests in the index.
StoreUpsert(p, upsertOK) ==
  /\ pc[p] = "upsert"
  /\ written[p] < Len(ChunksOf(doc[p]))
  /\ IF upsertOK
       THEN /\ index' = IndexUpsert(index,
                 Metadatas(ChunksOf(doc[p]),
                           get_pdf_hash(doc[p]))[written[p] + 1])
            /\ written' = [written EXCEPT ![p] = written[p] + 1]
            /\ UNCHANGED <<pc, outcome, raisedLast>>
       ELSE /\ StoreRaise(p)
            /\ UNCHANGED <<index, written>>
  /\ UNCHANGED <<environ, doc, found, queryFailed, retry, checkErrors,
                 started>>
  /\ UNCHANGED pureVars

\* store_chunks_in_pinecone returns the vector store
StoreReturn(p) ==
  /\ pc[p] = "upsert"
  /\ written[p] = Len(ChunksOf(doc[p]))
  /\ pc' = [pc EXCEPT ![p] = "idle"]
  /\ outcome' = [outcome EXCEPT ![p] = "stored"]
  /\ UNCHANGED <<index, environ, doc, found, queryFailed, written, retry,
                 raisedLast, checkErrors, started>>
  /\ UNCHANGED pureVars

IngestStep(p) ==
  \/ \E queryOK \in BOOLEAN : CheckIndexed(p, queryOK)
  \/ SkipIngest(p)
  \/ \E secretsOK \in BOOLEAN : StoreEnter(p, secretsOK)
  \/ \E embedOK \in BOOLEAN : StoreEmbed(p, embedOK)
  \/ \E upsertOK \in BOOLEAN : StoreUpsert(p, upsertOK)
  \/ StoreReturn(p)

\* sequential ingest requests
Next ==
  \E p \in Procs :
    \/ \E d \in Docs : BeginIngest(p, d)
    \/ IngestStep(p)

Spec == Init /\ [][Next]_vars

\* concurrent ingest requests, no lock between the callers
ConcNext ==
  \E p \in Procs :
    \/ \E d \in Docs : BeginIngestConcurrent(p, d)
    \/ IngestStep(p)

ConcSpec == Init /\ [][ConcNext]_vars

(***************************************************************************)
(* Claims about the existence check and the ingestion.                     *)
(***************************************************************************)
HashOf(p) == get_pdf_hash(doc[p])
NumChunksOf(p) == Len(ChunksOf(doc[p]))
RecordOf(p, i) == [doc_hash |-> HashOf(p), chunk_id |-> i]
HoldsAllChunks(p) ==
  \A i \in 0..(NumChunksOf(p) - 1) : CopiesIn(RecordOf(p, i), index) >= 1

\* C1 (as stated): in every sequential run the index never holds two
\* records with the same (doc_hash, chunk_id), and a store call only runs
\* when the index held no record of the fingerprint.
C1_NeverTwice ==
  /\ \A m \in BagToSet(index) : CopiesIn(m, index) <= 1
  /\ \A p \in Procs :
       pc[p] \in {"embed", "upsert"} =>
         \A m \in Matching(index, HashOf(p)) : m.chunk_id < written[p]

\* C1 (amended): in every sequential run, the chunks of a fingerprint whose
\* existence queries all succeeded are in the index at most once, and a
\* store call that follows a successful query only runs when the index
\* held no record of the fingerprint.
C1_AtMostOnceUnlessFailOpen ==
  /\ \A m \in BagToSet(index) :
       m.doc_hash \notin checkErrors => CopiesIn(m, index) <= 1
  /\ \A p \in Procs :
       (pc[p] \in {"embed", "upsert"} /\ HashOf(p) \notin checkErrors) =>
         \A m \in Matching(index, HashOf(p)) : m.chunk_id < written[p]

\* C1 witness: a second ingest of the indexed document dN was skipped after
\* a successful query, the index holding each of its chunks once.
C1_Witness ==
  \E p \in Procs :
    /\ doc[p] = "dN" /\ outcome[p] = "skipped" /\ ~queryFailed[p]
    /\ checkErrors = {}
    /\ \A i \in 0..(MaxChunks - 1) : CopiesIn(RecordOf(p, i), index) = 1

\* C2: when two concurrent requests for the same fingerprint both passed a
\* successful existence check with "not indexed" and both store calls
\* returned, the index holds every chunk of the fingerprint at least twice.
C2_DoubleWrite ==
  \A p, q \in Procs :
    (/\ p # q /\ doc[p] = doc[q]
     /\ outcome[p] = "stored" /\ outcome[q] = "stored"
     /\ ~queryFailed[p] /\ ~queryFailed[q])
    => \A i \in 0..(NumChunksOf(p) - 1) :
         CopiesIn(RecordOf(p, i), index) >= 2

\* C2 witness: both requests for dN passed the check without a query
\* failure, both wrote, and every chunk of dN is in the index twice.
C2_Witness ==
  /\ checkErrors = {}
  /\ \E p, q \in Procs :
       /\ p # q /\ doc[p] = "dN" /\ doc[q] = "dN"
       /\ outcome[p] = "stored" /\ outcome[q] = "stored"
       /\ \A i \in 0..(MaxChunks - 1) : CopiesIn(RecordOf(p, i), index) = 2

\* C3: the existence check never raises; it returns False when the query
\* fails, and when the query succeeds it returns True exactly when the
\* index holds a record with doc_hash = h.
C3_FailOpen ==
  [][\A p \in Procs :
       (pc[p] = "check" /\ pc'[p] = "checked") =>
         /\ outcome'[p] # "raised"
         /\ queryFailed'[p] => ~found'[p]
         /\ ~queryFailed'[p] =>
              (found'[p] <=> Matching(index, HashOf(p)) # {})]_vars

\* C3 witness: the query failed for a fingerprint whose records are in the
\* index, and the check returned False.
C3_Witness ==
  \E p \in Procs :
    /\ pc[p] = "checked" /\ queryFailed[p] /\ ~found[p]
    /\ Matching(index, HashOf(p)) # {}

\* C4: a store call that returned left all the chunks in the index, and a
\* store call that raised left none of its chunks in the index.
C4_AllOrNothing ==
  \A p \in Procs :
    /\ outcome[p] = "stored" => HoldsAllChunks(p)
    /\ outcome[p] = "raised" => written[p] = 0

\* C5: the ingest request that follows a raised store call of the same
\* document is not skipped by the existence check and, when nothing fails
\* in it, ends with the complete chunk set in the index.
C5_RetryCompletes ==
  \A p \in Procs :
    retry[p] =>
      /\ (pc[p] = "checked" /\ ~queryFailed[p]) => ~found[p]
      /\ (pc[p] = "idle" /\ ~queryFailed[p] /\ outcome[p] # "raised") =>
           (outcome[p] = "stored" /\ HoldsAllChunks(p))

\* C10: no operation changes the process environment.
C10_EnvironUnchanged == [][environ' = environ]_vars

(***************************************************************************)
(* Results of a call: a returned value or a raised exception.              *)
(***************************************************************************)
Return(v) == [tag |-> "return", value |-> v]
Raise(e) == [tag |-> "raise", exc |-> e]

\* an except clause that only catches the PDF library's own error
CatchesOnlyFileDataError(exc) == exc = "FileDataError"

\* "except Exception": every exception class of the model derives from it
CatchesException(exc) ==
  exc \in {"ImportError", "FileDataError", "RuntimeError", "KeyError",
           "ServiceError"}

(***************************************************************************)
(* Text.  A text is a sequence of items: 0 is one whitespace character,    *)
(* n > 0 is a run of n words separated by single spaces, with no           *)
(* whitespace before the first or after the last of them.  Concatenation   *)
(* of texts is \o; two runs that become adjacent share a word.             *)
(***************************************************************************)
RECURSIVE SplitCount(_, _)
\* len(text.split()): the number of whitespace-delimited words.  prevWord
\* tells whether the preceding item ended inside a word.
SplitCount(text, prevWord) ==
  IF text = <<>> THEN 0
  ELSE LET it == Head(text)
       IN  IF it = 0 THEN SplitCount(Tail(text), FALSE)
           ELSE (IF prevWord THEN it - 1 ELSE it)
                + SplitCount(Tail(text), TRUE)

WordCount(text) == SplitCount(text, FALSE)

RECURSIVE Digits(_)
\* str(n) of a natural number: its decimal digits
Digits(n) ==
  LET d == <<"0", "1", "2", "3", "4", "5", "6", "7", "8", "9">>
  IN  IF n < 10 THEN <<d[n + 1]>> ELSE Append(Digits(n \div 10), d[(n % 10) + 1])

(***************************************************************************)
(* _get_pymupdf: lib is what "import fitz" finds: the real PyMuPDF, a stub *)
(* package named fitz without open(), or nothing.                          *)
(***************************************************************************)
Libs == {"pymupdf", "stub", "missing"}

_get_pymupdf(lib) ==
  IF lib = "missing" THEN Raise("ImportError")
  ELSE IF lib = "stub" THEN Raise("ImportError")
  ELSE Return("fitz")

(***************************************************************************)
(* validate_pdf(file_content).  An upload is [lib, parse, pages]: the      *)
(* installed library, how the bytes parse ("ok", "corrupt": fitz.open      *)
(* raises, "unreadable": get_text raises on the first page) and the text   *)
(* of each page.                                                           *)
(***************************************************************************)
MaxPagesAllowed == 5
MaxWordsAllowed == 10000

\* a page limit that also rejects a document of exactly the allowed size
TooManyPagesAtLimit(page_count) == page_count >= MaxPagesAllowed

TooManyPages(page_count) == page_count > MaxPagesAllowed
TooManyWords(word_count) == word_count > MaxWordsAllowed

RECURSIVE FullText(_)
\* full_text: the page texts concatenated in page order
FullText(pages) ==
  IF pages = <<>> THEN <<>> ELSE Head(pages) \o FullText(Tail(pages))

\* the body of the try block: a returned triple or a raised exception
ValidateTry(file) ==
  LET fitz == _get_pymupdf(file.lib)
      page_count == Len(file.pages)
      full_text == FullText(file.pages)
      word_count == WordCount(full_text)
  IN  IF fitz.tag = "raise" THEN fitz
      ELSE IF file.parse = "corrupt" THEN Raise("FileDataError")
      ELSE IF TooManyPages(page_count)
        THEN Return([ok |-> FALSE,
                     message |-> <<"PDF has ">> \o Digits(page_count)
                                 \o <<" pages. Maximum allowed is 5.">>,
                     text |-> <<>>])
      ELSE IF file.parse = "unreadable" /\ page_count > 0
        THEN Raise("RuntimeError")
      ELSE IF TooManyWords(word_count)
        THEN Return([ok |-> FALSE,
                     message |-> <<"PDF has ">> \o Digits(word_count)
                                 \o <<" words. Maximum allowed is 10,000.">>,
                     text |-> <<>>])
      ELSE Return([ok |-> TRUE, message |-> <<"PDF is valid.">>,
                   text |-> full_text])

validate_pdf(file) ==
  LET r == ValidateTry(file)
  IN  IF r.tag = "raise" /\ CatchesException(r.exc)
        THEN Return([ok |-> FALSE,
                     message |-> <<"Error reading PDF: ", r.exc>>,
                     text |-> <<>>])
        ELSE r

(***************************************************************************)
(* Uploads handed to validate_pdf: up to MaxPages pages, each with one of  *)
(* the texts of PageTexts.                                                 *)
(***************************************************************************)
MaxPages == 6

PageTexts == {<<>>, <<1>>, <<0, 1>>, <<2000, 0>>, <<10000>>}

ValidateInit ==
  /\ IngestInit
  /\ environ = "unset"
  /\ vin = [lib |-> "pymupdf", parse |-> "ok", pages |-> <<>>]
  /\ vout = NoCall
  /\ cin = NoCall /\ cout = NoCall
  /\ qin = NoCall /\ qout = NoCall

\* the user's file gets one more page
UploadPage(t) ==
  /\ vout = NoCall
  /\ Len(vin.pages) < MaxPages
  /\ vin' = [vin EXCEPT !.pages = Append(@, t)]
  /\ UNCHANGED <<vout, cin, cout, qin, qout>>
  /\ UNCHANGED ingestVars

\* validate_pdf is called on the upload
Validate(lib, parse) ==
  /\ vout = NoCall
  /\ vin' = [vin EXCEPT !.lib = lib, !.parse = parse]
  /\ vout' = validate_pdf(vin')
  /\ UNCHANGED <<cin, cout, qin, qout>>
  /\ UNCHANGED ingestVars

ValidateNext ==
  \/ \E t \in PageTexts : UploadPage(t)
  \/ \E lib \in Libs, parse \in {"ok", "corrupt", "unreadable"} :
       Validate(lib, parse)

ValidateSpec == ValidateInit /\ [][ValidateNext]_vars

\* C6: a parsable PDF is accepted exactly when it has at most 5 pages and
\* at most 10,000 whitespace-delimited words in the concatenated page
\* texts; an accepted PDF returns the full text, and a PDF of more than 5
\* pages is rejected with a message citing its page count.
C6_ValidateLimits ==
  (vout.tag = "return" /\ vin.lib = "pymupdf" /\ vin.parse = "ok") =>
    LET n == Len(vin.pages)
        w == WordCount(FullText(vin.pages))
    IN  /\ vout.value.ok <=> (n <= 5 /\ w <= 10000)
        /\ vout.value.ok => vout.value.text = FullText(vin.pages)
        /\ n > 5 => vout.value.message =
             <<"PDF has ">> \o Digits(n) \o <<" pages. Maximum allowed is 5.">>

\* C6 witness: a 5-page PDF of exactly 10,000 words is accepted with its
\* full text.
C6_Witness ==
  /\ vout.tag = "return" /\ vin.lib = "pymupdf" /\ vin.parse = "ok"
  /\ Len(vin.pages) = 5
  /\ WordCount(FullText(vin.pages)) = 10000
  /\ vout.value.ok
  /\ vout.value.text = FullText(vin.pages)

\* C7: validate_pdf never raises: it returns a triple (ok, message, text),
\* and the text of a rejected document is the empty string.
C7_ValidateReturnsData ==
  vout.tag # "none" =>
    /\ vout.tag = "return"
    /\ DOMAIN vout.value = {"ok", "message", "text"}
    /\ vout.value.ok \in BOOLEAN
    /\ ~vout.value.ok => vout.value.text = <<>>

\* C7 witness: with no usable PDF library, an upload that has text is
\* rejected as data with an empty text.
C7_Witness ==
  /\ vout.tag = "return" /\ vin.lib # "pymupdf"
  /\ FullText(vin.pages) # <<>>
  /\ ~vout.value.ok /\ vout.value.text = <<>>

(***************************************************************************)
(* query_llm_with_rag(query, vector_store, llm, top_k).  Strings are       *)
(* sequences of pieces; " " and "\n" are whitespace characters.            *)
(***************************************************************************)
DefaultTopK == 5

IsSpace(c) == c \in {" ", "\n"}

RECURSIVE LStrip(_)
LStrip(str) ==
  IF str # <<>> /\ IsSpace(Head(str)) THEN LStrip(Tail(str)) ELSE str

RECURSIVE RStrip(_)
RStrip(str) ==
  IF str # <<>> /\ IsSpace(str[Len(str)])
    THEN RStrip(SubSeq(str, 1, Len(str) - 1)) ELSE str

\* str.strip()
Strip(str) == RStrip(LStrip(str))

RECURSIVE Join(_, _)
\* sep.join(strs)
Join(sep, strs) ==
  IF strs = <<>> THEN <<>>
  ELSE IF Len(strs) = 1 THEN Head(strs)
  ELSE Head(strs) \o sep \o Join(sep, Tail(strs))

\* a context without the placeholder for an empty retrieval
ContextJoinOnly(retrieved_docs) == Join(<<"\n", "\n">>, retrieved_docs)

\* context = "\n\n".join(...) if retrieved_docs else "No relevant context found."
Context(retrieved_docs) ==
  IF retrieved_docs # <<>> THEN Join(<<"\n", "\n">>, retrieved_docs)
  ELSE <<"No relevant context found.">>

\* create_rag_prompt_template() formatted with the context and the query
Prompt(query, context) ==
  <<"You are **DocuChat** ... (rules) ...", "\n", "Context:", "\n">>
  \o context \o <<"\n", "\n", "Question:", "\n">> \o query
  \o <<"\n", "\n", "Answer:", "\n">>

\* retriever.get_relevant_documents(query): the top_k most similar stored
\* documents, or the retriever fails
Retrieve(vector_store, top_k) ==
  IF vector_store.fails THEN Raise("ServiceError")
  ELSE Return(SubSeq(vector_store.docs, 1,
                     IF top_k < Len(vector_store.docs) THEN top_k
                     ELSE Len(vector_store.docs)))

\* the body of the try block; calls lists the prompts the model was
\* invoked with
QueryTry(query, vector_store, llm, top_k) ==
  LET retrieved == Retrieve(vector_store, top_k)
  IN  IF retrieved.tag = "raise"
        THEN [tag |-> "raise", exc |-> retrieved.exc, calls |-> <<>>]
        ELSE LET prompt == Prompt(query, Context(retrieved.value))
             IN  IF llm.fails
                   THEN [tag |-> "raise", exc |-> "ServiceError",
                         calls |-> <<prompt>>]
                   ELSE [tag |-> "return", value |-> Strip(llm.response),
                         calls |-> <<prompt>>]

query_llm_with_rag(query, vector_store, llm, top_k) ==
  LET r == QueryTry(query, vector_store, llm, top_k)
  IN  IF r.tag = "raise" /\ CatchesException(r.exc)
        THEN [tag |-> "return",
              value |-> <<"Error querying LLM: ", r.exc>>,
              calls |-> r.calls]
        ELSE r

(***************************************************************************)
(* Queries: a vector store holding up to MaxStored documents, a model that *)
(* fails or answers with one of Responses.                                 *)
(***************************************************************************)
MaxStored == 2

StoredTexts == {<<"x">>, <<"y", " ">>}
Queries == {<<"q">>, <<>>}
Responses == {<<>>, <<"a">>, <<" ", "a", "\n">>, <<"a", " ", "b">>, <<" ">>}
Llms == {[fails |-> TRUE, response |-> <<>>]}
        \cup {[fails |-> FALSE, response |-> r] : r \in Responses}

QueryInit ==
  /\ IngestInit
  /\ environ = "unset"
  /\ vin = NoCall /\ vout = NoCall
  /\ cin = NoCall /\ cout = NoCall
  /\ qin = [query |-> <<>>, top_k |-> DefaultTopK,
            vector_store |-> [fails |-> FALSE, docs |-> <<>>],
            llm |-> [fails |-> FALSE, response |-> <<>>]]
  /\ qout = NoCall

\* a chunk text is in the vector store before the query
StoreText(t) ==
  /\ qout = NoCall
  /\ Len(qin.vector_store.docs) < MaxStored
  /\ qin' = [qin EXCEPT !.vector_store.docs = Append(@, t)]
  /\ UNCHANGED <<qout, vin, vout, cin, cout>>
  /\ UNCHANGED ingestVars

\* query_llm_with_rag is called
Query(query, top_k, retrieverFails, llm) ==
  /\ qout = NoCall
  /\ qin' = [qin EXCEPT !.query = query, !.top_k = top_k,
                        !.vector_store.fails = retrieverFails, !.llm = llm]
  /\ qout' = query_llm_with_rag(query, qin'.vector_store, llm, top_k)
  /\ UNCHANGED <<vin, vout, cin, cout>>
  /\ UNCHANGED ingestVars

QueryNext ==
  \/ \E t \in StoredTexts : StoreText(t)
  \/ \E query \in Queries, top_k \in {1, DefaultTopK},
        retrieverFails \in BOOLEAN, llm \in Llms :
       Query(query, top_k, retrieverFails, llm)

QuerySpec == QueryInit /\ [][QueryNext]_vars

\* C8: query_llm_with_rag never raises and returns a string; a failure of
\* the retriever or of the model is returned as "Error querying LLM: ...";
\* with an empty retrieval the model is invoked once, with the context
\* "No relevant context found.", and its trimmed response is returned.
C8_AlwaysDisplayable ==
  qout.tag # "none" =>
    /\ qout.tag = "return"
    /\ qout.value \in Seq(STRING)
    /\ (qin.vector_store.fails \/ qin.llm.fails) =>
         (Len(qout.value) >= 1 /\ Head(qout.value) = "Error querying LLM: ")
    /\ (~qin.vector_store.fails /\ qin.vector_store.docs = <<>>) =>
         /\ qout.calls =
              <<Prompt(qin.query, <<"No relevant context found.">>)>>
         /\ ~qin.llm.fails =>
              /\ qout.value = RStrip(LStrip(qin.llm.response))
              /\ qout.value # <<>> =>
                   (~IsSpace(Head(qout.value))
                    /\ ~IsSpace(qout.value[Len(qout.value)]))

\* C8 witness: nothing was retrieved, the model was invoked with the
\* placeholder context and its response, which had surrounding
\* whitespace, came back trimmed.
C8_Witness ==
  /\ qout.tag = "return"
  /\ ~qin.vector_store.fails /\ qin.vector_store.docs = <<>>
  /\ ~qin.llm.fails /\ qin.llm.response = <<" ", "a", "\n">>
  /\ qout.value = <<"a">>
  /\ qout.calls = <<Prompt(qin.query, <<"No relevant context found.">>)>>

(***************************************************************************)
(* process_pdf_and_split(file_content, chunk_size, chunk_overlap).  Here a *)
(* text is a sequence of characters.  The splitter is langchain's          *)
(* RecursiveCharacterTextSplitter with keep_separator and strip_whitespace *)
(* at their defaults (True).                                               *)
(***************************************************************************)
SplitterChunkSize == 1000
SplitterChunkOverlap == 200
Separators == << <<"\n", "\n">>, <<"\n">>, <<".">>, <<" ">>, <<>> >>

\* re.search(separator, text)
Occurs(sep, text) ==
  \E i \in 1..(Len(text) - Len(sep) + 1) :
    SubSeq(text, i, i + Len(sep) - 1) = sep

\* start of the leftmost occurrence of sep in text at or after from, or 0
FindFrom(sep, text, from) ==
  LET S == {i \in from..(Len(text) - Len(sep) + 1) :
              SubSeq(text, i, i + Len(sep) - 1) = sep}
  IN  IF S = {} THEN 0 ELSE CHOOSE i \in S : \A j \in S : i <= j

RECURSIVE SplitKeep(_, _, _, _)
\* re.split("(sep)", text) regrouped so that every piece but the first
\* starts with the separator; start is where the current piece begins and
\* from where the next separator is looked for
SplitKeep(sep, text, start, from) ==
  LET i == FindFrom(sep, text, from)
  IN  IF i = 0 THEN <<SubSeq(text, start, Len(text))>>
      ELSE <<SubSeq(text, start, i - 1)>>
           \o SplitKeep(sep, text, i, i + Len(sep))

\* _split_text_with_regex(text, separator, keep_separator=True)
SplitTextWithRegex(text, sep) ==
  LET splits == IF sep # <<>> THEN SplitKeep(sep, text, 1, 1)
                ELSE [i \in 1..Len(text) |-> <<text[i]>>]
  IN  SelectSeq(splits, LAMBDA x : x # <<>>)

\* _join_docs: None is modelled as the empty text
JoinDocs(docs, separator) == Strip(Join(separator, docs))

RECURSIVE PopDocs(_, _, _, _, _, _)
\* the while loop of _merge_splits: drop leading splits of current_doc
PopDocs(current_doc, total, len, sepLen, size, overlap) ==
  IF total > overlap
     \/ (total + len + (IF Len(current_doc) > 0 THEN sepLen ELSE 0) > size
         /\ total > 0)
    THEN PopDocs(Tail(current_doc),
                 total - (Len(Head(current_doc))
                          + (IF Len(current_doc) > 1 THEN sepLen ELSE 0)),
                 len, sepLen, size, overlap)
    ELSE [current_doc |-> current_doc, total |-> total]

RECURSIVE MergeLoop(_, _, _, _, _, _, _)
\* the for loop of _merge_splits and the final _join_docs
MergeLoop(splits, separator, docs, current_doc, total, size, overlap) ==
  IF splits = <<>>
    THEN LET joined == JoinDocs(current_doc, separator)
         IN  IF joined # <<>> THEN Append(docs, joined) ELSE docs
    ELSE
      LET d == Head(splits)
          len == Len(d)
          sepLen == Len(separator)
          over == total + len
                  + (IF Len(current_doc) > 0 THEN sepLen ELSE 0) > size
          flush == over /\ Len(current_doc) > 0
          joined == JoinDocs(current_doc, separator)
          docs1 == IF flush /\ joined # <<>> THEN Append(docs, joined) ELSE docs
          kept == IF flush
                    THEN PopDocs(current_doc, total, len, sepLen, size,
                                 overlap)
                    ELSE [current_doc |-> current_doc, total |-> total]
          cur1 == Append(kept.current_doc, d)
      IN  MergeLoop(Tail(splits), separator, docs1, cur1,
                    kept.total + len + (IF Len(cur1) > 1 THEN sepLen ELSE 0),
                    size, overlap)

\* _merge_splits(splits, separator)
MergeSplits(splits, separator, size, overlap) ==
  MergeLoop(splits, separator, <<>>, <<>>, 0, size, overlap)

\* the position in separators of the separator _split_text uses: the first
\* that is empty or occurs in the text
PickSeparator(text, separators) ==
  CHOOSE i \in 1..Len(separators) :
    /\ separators[i] = <<>> \/ Occurs(separators[i], text)
    /\ \A j \in 1..(i - 1) :
         separators[j] # <<>> /\ ~Occurs(separators[j], text)

RECURSIVE SplitText(_, _, _, _)
RECURSIVE SplitLoop(_, _, _, _, _, _)
\* the for loop of _split_text over the splits, and the final merge
SplitLoop(splits, new_separators, final_chunks, good_splits, size, overlap) ==
  IF splits = <<>>
    THEN IF good_splits # <<>>
           THEN final_chunks \o MergeSplits(good_splits, <<>>, size, overlap)
           ELSE final_chunks
    ELSE
      LET s == Head(splits)
      IN  IF Len(s) < size
            THEN SplitLoop(Tail(splits), new_separators, final_chunks,
                           Append(good_splits, s), size, overlap)
            ELSE
              LET merged == IF good_splits # <<>>
                              THEN MergeSplits(good_splits, <<>>, size,
                                               overlap)
                              ELSE <<>>
                  finer == IF new_separators = <<>> THEN <<s>>
                           ELSE SplitText(s, new_separators, size, overlap)
              IN  SplitLoop(Tail(splits), new_separators,
                            final_chunks \o merged \o finer, <<>>, size,
                            overlap)

\* RecursiveCharacterTextSplitter._split_text(text, separators)
SplitText(text, separators, size, overlap) ==
  LET i == PickSeparator(text, separators)
      separator == separators[i]
      new_separators == IF separator = <<>> THEN <<>>
                        ELSE SubSeq(separators, i + 1, Len(separators))
  IN  SplitLoop(SplitTextWithRegex(text, separator), new_separators,
                <<>>, <<>>, size, overlap)

\* the body of the try block; the chunk_size and chunk_overlap arguments
\* are not used: the splitter is built with 1000 and 200
SplitTry(file, chunk_size, chunk_overlap) ==
  LET fitz == _get_pymupdf(file.lib)
  IN  IF fitz.tag = "raise" THEN fitz
      ELSE IF file.parse = "corrupt" THEN Raise("FileDataError")
      ELSE IF file.parse = "unreadable" /\ Len(file.pages) > 0
        THEN Raise("RuntimeError")
      ELSE Return(SplitText(FullText(file.pages), Separators,
                            SplitterChunkSize, SplitterChunkOverlap))

process_pdf_and_split(file, chunk_size, chunk_overlap) ==
  LET r == SplitTry(file, chunk_size, chunk_overlap)
  IN  IF r.tag = "raise" /\ CatchesException(r.exc)
        THEN Raise("ValueError")
        ELSE r

(***************************************************************************)
(* Documents handed to the chunker: every text of up to MaxTextLen         *)
(* characters of Chars, and the texts of LongTexts around the chunk size.  *)
(***************************************************************************)
MaxTextLen == 3
DefaultChunkSize == 1000
DefaultChunkOverlap == 200

Chars == {"a", " ", ".", "\n"}

\* n times the letter "a"
Letters(n) == [i \in 1..n |-> "a"]

LongTexts ==
  { Letters(499) \o <<" ">> \o Letters(499),
    Letters(500) \o <<" ">> \o Letters(499),
    Letters(500) \o <<"\n", "\n">> \o Letters(500) \o <<"\n", "\n">>
      \o Letters(500),
    Letters(600) \o <<".", " ">> \o Letters(600) \o <<"\n">> }

ChunkInit ==
  /\ IngestInit
  /\ environ = "unset"
  /\ vin = NoCall /\ vout = NoCall
  /\ qin = NoCall /\ qout = NoCall
  /\ cin = [file |-> [lib |-> "pymupdf", parse |-> "ok", pages |-> <<<<>>>>],
            chunk_size |-> DefaultChunkSize,
            chunk_overlap |-> DefaultChunkOverlap]
  /\ cout = NoCall

\* the text of the document gets one more character
TypeChar(c) ==
  /\ cout = NoCall
  /\ Len(cin.file.pages[1]) < MaxTextLen
  /\ cin' = [cin EXCEPT !.file.pages[1] = Append(@, c)]
  /\ UNCHANGED <<cout, vin, vout, qin, qout>>
  /\ UNCHANGED ingestVars

\* the document is one of the long texts
LoadText(t) ==
  /\ cout = NoCall
  /\ cin.file.pages[1] = <<>>
  /\ cin' = [cin EXCEPT !.file.pages[1] = t]
  /\ UNCHANGED <<cout, vin, vout, qin, qout>>
  /\ UNCHANGED ingestVars

\* process_pdf_and_split is called
Chunk(lib, parse, chunk_size, chunk_overlap) ==
  /\ cout = NoCall
  /\ cin' = [cin EXCEPT !.file.lib = lib, !.file.parse = parse,
                        !.chunk_size = chunk_size,
                        !.chunk_overlap = chunk_overlap]
  /\ cout' = process_pdf_and_split(cin'.file, chunk_size, chunk_overlap)
  /\ UNCHANGED <<vin, vout, qin, qout>>
  /\ UNCHANGED ingestVars

ChunkNext ==
  \/ \E c \in Chars : TypeChar(c)
  \/ \E t \in LongTexts : LoadText(t)
  \/ \E lib \in Libs, parse \in {"ok", "corrupt", "unreadable"},
        chunk_size \in {DefaultChunkSize, 2000},
        chunk_overlap \in {DefaultChunkOverlap} :
       Chunk(lib, parse, chunk_size, chunk_overlap)

ChunkSpec == ChunkInit /\ [][ChunkNext]_vars

\* C9: for every document text shorter than the chunk size given to
\* process_pdf_and_split, the chunker returns exactly one chunk, equal to
\* the text.
C9_OneChunkWhenShort ==
  (cout.tag = "return" /\ Len(FullText(cin.file.pages)) < cin.chunk_size)
    => cout.value = <<FullText(cin.file.pages)>>

====
